---- MODULE Spec2Model ----
(***************************************************************************)
(* Model of three_layer_dnn.ipynb: a 3-layer fully connected network       *)
(* (ReLU, ReLU, sigmoid) trained by full-batch gradient descent.           *)
(*                                                                         *)
(* Numbers.  The notebook computes in IEEE doubles.  The model computes in *)
(* fixed point: an integer n stands for the real n / One, and every        *)
(* product and quotient is rounded to the nearest representable value, as  *)
(* a floating-point operation is.  In the runs of train_three_layer the    *)
(* resolution 1/One is the scale 0.01 by which the notebook multiplies its *)
(* random draws, so that a whole draw times 0.01 is represented exactly.   *)
(* Like the doubles it stands for, the arithmetic saturates: exp overflows *)
(* to a value that makes the sigmoid exactly 0, underflows to 0 so that    *)
(* the sigmoid is exactly 1, and log(0) is minus infinity.  The cost is    *)
(* therefore an extended value: finite, +inf, -inf or nan.                 *)
(* Where the stages are compared with finite differences the resolution is *)
(* 2^-28 (about 4e-9) and all values lie in (-4, 4); products and          *)
(* quotients are then computed by halves, within 32 bits.                  *)
(*                                                                         *)
(* Arrays.  A numpy array of shape (r, c) is a record [rows, cols, v] with *)
(* v[i][j] its entries; shapes with a zero dimension are arrays too, as in *)
(* numpy.  Elementwise operations follow numpy's broadcasting rule.        *)
(***************************************************************************)
EXTENDS Integers, Sequences, FiniteSets, TLC

\* ---------------------------------------------------------------- bounds
\* Largest hidden-layer width passed to train_three_layer.
MaxWidth == 2
\* Largest number of samples (columns) of X and of y.
MaxCols == 2
\* Epoch count of the long runs (more than one sampling interval).
MaxEpochs == 101

\* The number of samples of the end-to-end scenario.
ScenarioCols == 3

\* ------------------------------------------------------ program constants
\* train_three_layer's default number of epochs (line 251) and the hidden
\* widths of the notebook's run cell (line 332).
DefaultEpochs == 3000
NotebookWidth1 == 4
NotebookWidth2 == 3
\* 1 / 0.01: the notebook scales its random weights by 0.01 (line 82); the
\* default learning rate is the same 0.01 (line 251).
InvInitScale == 100
\* The cost is sampled every 100th epoch (line 261).
SampleInterval == 100

\* The fixed-point unit of a behaviour: the integer that stands for 1.0.
VARIABLE unit
\* The unit of the training runs, and the fine unit with its square root
\* and its number of bits.
CoarseUnit == InvInitScale
FineBits == 28
FineUnit == 2^FineBits
HalfUnit == 2^(FineBits \div 2)

One == unit
\* Whether products of two numbers exceed 32 bits.
Wide == unit = FineUnit

\* ------------------------------------------------------------ arithmetic
Max2(a, b) == IF a >= b THEN a ELSE b
Min2(a, b) == IF a <= b THEN a ELSE b

\* n / d rounded to the nearest integer (d > 0), halves away from zero.
RoundDiv(n, d) == IF n >= 0 THEN (2 * n + d) \div (2 * d)
                            ELSE -((2 * (-n) + d) \div (2 * d))

Abs(a) == IF a >= 0 THEN a ELSE -a

\* |a| * |b| / FineUnit, rounded, from the halves of a and b (|a|, |b| < 2^30).
MulWide(a, b) ==
    LET ah == Abs(a) \div HalfUnit
        al == Abs(a) % HalfUnit
        bh == Abs(b) \div HalfUnit
        bl == Abs(b) % HalfUnit
        mid == ah * bl + al * bh
    IN  ah * bh + (mid \div HalfUnit)
          + RoundDiv((mid % HalfUnit) * HalfUnit + al * bl, FineUnit)

\* r * 2^n / b, rounded, bit by bit (0 <= r < b < 2^30); acc holds the bits
\* found so far.
RECURSIVE DivBits(_, _, _, _)
DivBits(r, b, n, acc) ==
    IF n = 0 THEN acc + (IF 2 * r >= b THEN 1 ELSE 0)
    ELSE IF 2 * r >= b THEN DivBits(2 * r - b, b, n - 1, 2 * acc + 1)
    ELSE DivBits(2 * r, b, n - 1, 2 * acc)

\* |a| * FineUnit / |b|, rounded.
DivWide(a, b) ==
    (Abs(a) \div Abs(b)) * FineUnit + DivBits(Abs(a) % Abs(b), Abs(b), FineBits, 0)

\* Fixed-point product and quotient of two fixed-point numbers.
Mul(a, b) == IF Wide
             THEN IF (a >= 0) = (b >= 0) THEN MulWide(a, b) ELSE -MulWide(a, b)
             ELSE RoundDiv(a * b, One)
Div(a, b) == IF Wide
             THEN IF (a >= 0) = (b >= 0) THEN DivWide(a, b) ELSE -DivWide(a, b)
             ELSE IF b > 0 THEN RoundDiv(a * One, b) ELSE -RoundDiv(a * One, -b)

\* exp: the value from which on 1 / (1 + exp) rounds to exactly 0; exp
\* saturates there, as np.exp overflows to inf.  At the fine unit no value
\* comes near it.
ExpInf == IF Wide THEN 4 * One ELSE 4 * One * One
\* e, ln 2 in fixed point.
EulerE == IF Wide THEN 729683222 ELSE RoundDiv(2718282 * One, 1000000)
Ln2 == IF Wide THEN 186065279 ELSE RoundDiv(693147 * One, 1000000)

\* e^k for a whole k >= 0, saturating.
RECURSIVE ExpWhole(_)
ExpWhole(k) == IF k = 0 THEN One
               ELSE LET p == ExpWhole(k - 1)
                    IN  IF p >= ExpInf THEN ExpInf ELSE Min2(ExpInf, Mul(p, EulerE))

\* The Taylor series of e^r, 0 <= r < One: term is r^(k-1)/(k-1)!.
RECURSIVE ExpSeries(_, _, _)
ExpSeries(r, term, k) ==
    IF term = 0 THEN 0
    ELSE term + ExpSeries(r, IF Wide THEN RoundDiv(Mul(term, r), k)
                                     ELSE RoundDiv(term * r, k * One), k + 1)

\* np.exp
Exp(x) == IF x >= 0
          THEN LET w == ExpWhole(Min2(x \div One, 2 * One))
               IN  IF w >= ExpInf THEN ExpInf
                   ELSE Min2(ExpInf, Mul(w, ExpSeries(x % One, One, 1)))
          ELSE LET w == ExpWhole(Min2((-x) \div One, 2 * One))
                   p == IF w >= ExpInf THEN ExpInf
                        ELSE Min2(ExpInf, Mul(w, ExpSeries((-x) % One, One, 1)))
               IN  Div(One, p)

\* The series 2 (t + t^3/3 + t^5/5 + ...) of ln((1+t)/(1-t)), |t| <= 1/3.
RECURSIVE LnSeries(_, _, _)
LnSeries(t, pow, k) == IF pow = 0 THEN 0
                       ELSE RoundDiv(2 * pow, k) + LnSeries(t, Mul(Mul(pow, t), t), k + 2)

\* np.log of a > 0: halve the range with ln a = ln 2a - ln 2, then the series.
RECURSIVE Ln(_)
Ln(a) == IF 2 * a <= One THEN Ln(2 * a) - Ln2
         ELSE IF a > 2 * One THEN Ln(RoundDiv(a, 2)) + Ln2
         ELSE LnSeries(Div(a - One, a + One), Div(a - One, a + One), 1)

\* ---------------------------------------------------------------- arrays
\* The first c entries of a row f, and the first r rows of e, as stored
\* values (each entry computed once).
RECURSIVE Row(_, _)
Row(f, c) == IF c <= 0 THEN <<>> ELSE Append(Row(f, c - 1), f[c])
RECURSIVE Rows(_, _, _)
Rows(e, r, c) == IF r <= 0 THEN <<>> ELSE Append(Rows(e, r - 1, c), Row(e[r], c))

\* A numpy array of shape (r, c) with the entries e[i][j].
Array(r, c, e) == [rows |-> r, cols |-> c, v |-> Rows(e, r, c)]

\* The name of a Python variable that is not bound yet.
Unbound == [rows |-> -1, cols |-> -1, v |-> <<>>]

\* A faulty variant: np.ones((r, c)).
Zeros_Ones(r, c) == Array(r, c, [i \in 1..r |-> [j \in 1..c |-> One]])

\* np.zeros((r, c))
Zeros(r, c) == Array(r, c, [i \in 1..r |-> [j \in 1..c |-> 0]])

\* A.T
Transpose(A) ==
    Array(A.cols, A.rows, [i \in 1..A.cols |-> [j \in 1..A.rows |-> A.v[j][i]]])

\* numpy broadcasting of two dimensions: equal, or one of them is 1.
DimsBroadcast(a, b) == a = b \/ a = 1 \/ b = 1
BroadcastDim(a, b) == IF a = 1 THEN b ELSE a
Broadcasts(A, B) == DimsBroadcast(A.rows, B.rows) /\ DimsBroadcast(A.cols, B.cols)

\* The entry of A that broadcasting puts at (i, j).
At(A, i, j) == A.v[IF A.rows = 1 THEN 1 ELSE i][IF A.cols = 1 THEN 1 ELSE j]

\* The index sets of an elementwise operation on two arrays that broadcast.
BroadcastRows(A, B) == 1..BroadcastDim(A.rows, B.rows)
BroadcastCols(A, B) == 1..BroadcastDim(A.cols, B.cols)

\* A + B and A - B, elementwise.
Plus(A, B) ==
    Array(BroadcastDim(A.rows, B.rows), BroadcastDim(A.cols, B.cols),
          [i \in BroadcastRows(A, B) |-> [j \in BroadcastCols(A, B) |->
              At(A, i, j) + At(B, i, j)]])
Minus(A, B) ==
    Array(BroadcastDim(A.rows, B.rows), BroadcastDim(A.cols, B.cols),
          [i \in BroadcastRows(A, B) |-> [j \in BroadcastCols(A, B) |->
              At(A, i, j) - At(B, i, j)]])

\* c * A for a scalar c.
Scaled(c, A) ==
    Array(A.rows, A.cols, [i \in 1..A.rows |-> [j \in 1..A.cols |-> Mul(c, A.v[i][j])]])

\* np.dot(A, B) is defined when the inner dimensions agree.
DotAligned(A, B) == A.cols = B.rows

RECURSIVE DotEntry(_, _, _, _, _)
DotEntry(A, B, i, j, k) ==
    IF k = 0 THEN 0 ELSE DotEntry(A, B, i, j, k - 1) + Mul(A.v[i][k], B.v[k][j])

Dot(A, B) ==
    Array(A.rows, B.cols,
          [i \in 1..A.rows |-> [j \in 1..B.cols |-> DotEntry(A, B, i, j, A.cols)]])

\* np.sum(A, axis=1, keepdims=True): the row sums, as a column.
RECURSIVE RowSum(_, _, _)
RowSum(A, i, k) == IF k = 0 THEN 0 ELSE RowSum(A, i, k - 1) + A.v[i][k]

SumAxis1(A) ==
    Array(A.rows, 1, [i \in 1..A.rows |-> [j \in 1..1 |-> RowSum(A, i, A.cols)]])

\* A / m for a whole m >= 1.
DivideBy(A, m) ==
    Array(A.rows, A.cols, [i \in 1..A.rows |-> [j \in 1..A.cols |-> RoundDiv(A.v[i][j], m)]])

\* (A > 0): the boolean array, True as 1 and False as 0.
Positive(A) ==
    Array(A.rows, A.cols,
          [i \in 1..A.rows |-> [j \in 1..A.cols |-> IF A.v[i][j] > 0 THEN 1 ELSE 0]])

\* D * (A > 0): the product with a boolean array.
Masked(D, M) ==
    Array(BroadcastDim(D.rows, M.rows), BroadcastDim(D.cols, M.cols),
          [i \in BroadcastRows(D, M) |-> [j \in BroadcastCols(D, M) |->
              At(D, i, j) * At(M, i, j)]])

\* ----------------------------------------------------------- activations
\* sigmoid(z) = 1 / (1 + np.exp(-z))
sigmoid(z) == Div(One, One + Exp(-z))

\* relu(z) = np.maximum(0, z)
relu(z) == Max2(0, z)

\* sigmoid and relu of an array: numpy applies them entry by entry.
SigmoidOf(Z) ==
    Array(Z.rows, Z.cols, [i \in 1..Z.rows |-> [j \in 1..Z.cols |-> sigmoid(Z.v[i][j])]])
ReluOfArray(Z) ==
    Array(Z.rows, Z.cols, [i \in 1..Z.rows |-> [j \in 1..Z.cols |-> relu(Z.v[i][j])]])

\* ------------------------------------------------- extended (IEEE) values
\* The value of a double that may be non-finite.
Fin(n) == [k |-> "fin", v |-> n]
PosInf == [k |-> "+inf", v |-> 0]
NegInf == [k |-> "-inf", v |-> 0]
NaN == [k |-> "nan", v |-> 0]
\* The cost variable before its first assignment.
NoCost == [k |-> "unbound", v |-> 0]

IsFinite(x) == x.k = "fin"

Negate(x) == IF x.k = "fin" THEN Fin(-x.v)
             ELSE IF x.k = "+inf" THEN NegInf
             ELSE IF x.k = "-inf" THEN PosInf
             ELSE NaN

\* A faulty variant: the argument is clipped away from 0 before the log.
Log_Clipped(a) == IF a > 0 THEN Fin(Ln(a)) ELSE Fin(Ln(1))

\* np.log(a): log(0) is -inf (a warning, no error), log of a negative is nan.
Log(a) == IF a > 0 THEN Fin(Ln(a)) ELSE IF a = 0 THEN NegInf ELSE NaN

\* c * x for a finite c: 0 * inf is nan.
Times(c, x) == IF x.k = "fin" THEN Fin(Mul(c, x.v))
               ELSE IF x.k = "nan" \/ c = 0 THEN NaN
               ELSE IF c > 0 THEN x
               ELSE Negate(x)

\* x + y: inf + (-inf) is nan.
AddX(x, y) == IF x.k = "nan" \/ y.k = "nan" THEN NaN
              ELSE IF x.k = "fin" /\ y.k = "fin" THEN Fin(x.v + y.v)
              ELSE IF x.k = "fin" THEN y
              ELSE IF y.k = "fin" THEN x
              ELSE IF x.k = y.k THEN x
              ELSE NaN

\* x / m for a whole m >= 1.
DivX(x, m) == IF x.k = "fin" THEN Fin(RoundDiv(x.v, m)) ELSE x

\* ------------------------------------------------------------ the stages
\* np.random.randn(r, c): r * c draws of the global generator, row by row.
\* rng is the generator: the stream of its draws (whole numbers) and how
\* many it has handed out.
DrawAt(rng, n) == rng.stream[((rng.pos + n - 1) % Len(rng.stream)) + 1] * One
Randn(rng, r, c) ==
    Array(r, c, [i \in 1..r |-> [j \in 1..c |-> DrawAt(rng, (i - 1) * c + j)]])
Advance(rng, n) == [rng EXCEPT !.pos = @ + n]

\* 0.01, the scale of the initial weights.
InitScale == RoundDiv(One, InvInitScale)

\* numpy refuses a negative dimension (ValueError); a zero one is an empty
\* array.
InitializeRaises(n_x, n_h1, n_h2, n_y) == n_x < 0 \/ n_h1 < 0 \/ n_h2 < 0 \/ n_y < 0

\* A faulty variant: W3 is drawn one draw further on in the generator, past
\* the draws of the initial weights.
initialize_parameters_3layer_Overdrawn(rng, n_x, n_h1, n_h2, n_y) ==
    LET r2 == Advance(rng, n_h1 * n_x)
        r3 == Advance(r2, n_h2 * n_h1 + 1)
    IN  [W1 |-> Scaled(InitScale, Randn(rng, n_h1, n_x)),
         b1 |-> Zeros(n_h1, 1),
         W2 |-> Scaled(InitScale, Randn(r2, n_h2, n_h1)),
         b2 |-> Zeros(n_h2, 1),
         W3 |-> Scaled(InitScale, Randn(r3, n_y, n_h2)),
         b3 |-> Zeros(n_y, 1)]

initialize_parameters_3layer(rng, n_x, n_h1, n_h2, n_y) ==
    LET r2 == Advance(rng, n_h1 * n_x)
        r3 == Advance(r2, n_h2 * n_h1)
    IN  [W1 |-> Scaled(InitScale, Randn(rng, n_h1, n_x)),
         b1 |-> Zeros(n_h1, 1),
         W2 |-> Scaled(InitScale, Randn(r2, n_h2, n_h1)),
         b2 |-> Zeros(n_h2, 1),
         W3 |-> Scaled(InitScale, Randn(r3, n_y, n_h2)),
         b3 |-> Zeros(n_y, 1)]

\* The generator after initialize_parameters_3layer.
RngAfterInitialize(rng, n_x, n_h1, n_h2, n_y) ==
    Advance(rng, n_h1 * n_x + n_h2 * n_h1 + n_y * n_h2)

\* A faulty variant: the bias is left out.
Linear_NoBias(W, A, b) == Dot(W, A)

\* np.dot(W, A) + b
Linear(W, A, b) == Plus(Dot(W, A), b)
LinearRaises(W, A, b) == ~DotAligned(W, A) \/ ~Broadcasts(Dot(W, A), b)

\* The frame of forward_propagation_3layer at its return: its locals.
forward_propagation_3layer(Xa, W1, b1, W2, b2, W3, b3) ==
    LET Z1 == Linear(W1, Xa, b1)
        A1 == ReluOfArray(Z1)
        Z2 == Linear(W2, A1, b2)
        A2 == ReluOfArray(Z2)
        Z3 == Linear(W3, A2, b3)
        A3 == SigmoidOf(Z3)
    IN  [Z1 |-> Z1, A1 |-> A1, Z2 |-> Z2, A2 |-> A2, Z3 |-> Z3, A3 |-> A3]

ForwardRaises(Xa, W1, b1, W2, b2, W3, b3) ==
    \/ LinearRaises(W1, Xa, b1)
    \/ LinearRaises(W2, ReluOfArray(Linear(W1, Xa, b1)), b2)
    \/ LinearRaises(W3, ReluOfArray(Linear(W2, ReluOfArray(Linear(W1, Xa, b1)), b2)), b3)

\* y * np.log(A3) + (1 - y) * np.log(1 - A3) at one entry.
CostTerm(a, t) == AddX(Times(t, Log(a)), Times(One - t, Log(One - a)))

\* np.sum over the first n entries (row by row) of the broadcast terms.
RECURSIVE SumTerms(_, _, _, _)
SumTerms(A3, ya, c, n) ==
    IF n = 0 THEN Fin(0)
    ELSE AddX(SumTerms(A3, ya, c, n - 1),
              CostTerm(At(A3, ((n - 1) \div c) + 1, ((n - 1) % c) + 1),
                       At(ya, ((n - 1) \div c) + 1, ((n - 1) % c) + 1)))

\* y * np.log(A3) raises ValueError when the shapes do not broadcast.
CostRaises(A3, ya) == ~Broadcasts(ya, A3)

\* A faulty variant: the sum of the terms is not divided by m.
compute_cost_3layer_Sum(A3, ya) ==
    LET r == BroadcastDim(ya.rows, A3.rows)
        c == BroadcastDim(ya.cols, A3.cols)
    IN  Negate(SumTerms(A3, ya, c, r * c))

compute_cost_3layer(A3, ya) ==
    LET m == ya.cols
        r == BroadcastDim(ya.rows, A3.rows)
        c == BroadcastDim(ya.cols, A3.cols)
    IN  DivX(Negate(SumTerms(A3, ya, c, r * c)), m)

\* A faulty variant: A3 is clipped into [0.01, 0.99] in place before the
\* logarithms are taken (np.clip(A3, eps, 1 - eps, out=A3)).
CostOperands_ClippedInPlace(A3, ya) ==
    [A3 |-> Array(A3.rows, A3.cols,
                  [r \in 1..A3.rows |-> [c \in 1..A3.cols |->
                      Max2(One \div 100, Min2(One - One \div 100, A3.v[r][c]))]]),
     y |-> ya]

\* The arrays the caller's A3 and y refer to when compute_cost_3layer
\* returns: they are passed by reference, and lines 149-150 only read them
\* (y * np.log(A3), 1 - y and 1 - A3 allocate new arrays).
CostOperands(A3, ya) == [A3 |-> A3, y |-> ya]

\* A faulty variant: the sign of the output error is wrong.
OutputDelta_Negated(A3, ya) == Minus(ya, A3)

\* dZ3 = A3 - y
OutputDelta(A3, ya) == Minus(A3, ya)
\* A faulty variant: the mask is 1 at 0 too (>= for >).
ReluDerivative_AtZero(A) ==
    Array(A.rows, A.cols,
          [i \in 1..A.rows |-> [j \in 1..A.cols |-> IF A.v[i][j] >= 0 THEN 1 ELSE 0]])

\* (A > 0), the ReLU derivative
ReluDerivative(A) == Positive(A)
\* A faulty variant: the error is passed back without the ReLU mask.
HiddenDelta_Unmasked(W, dZ, A) == Dot(Transpose(W), dZ)

\* np.dot(W.T, dZ) * (A > 0)
HiddenDelta(W, dZ, A) == Masked(Dot(Transpose(W), dZ), ReluDerivative(A))
\* A faulty variant: the factors are swapped, which transposes the gradient.
WeightGradient_Transposed(dZ, A, m) == DivideBy(Dot(A, Transpose(dZ)), m)

\* np.dot(dZ, A.T) / m
WeightGradient(dZ, A, m) == DivideBy(Dot(dZ, Transpose(A)), m)
\* A faulty variant: the bias gradient is the sum, not the mean.
BiasGradient_Sum(dZ, m) == SumAxis1(dZ)

\* np.sum(dZ, axis=1, keepdims=True) / m
BiasGradient(dZ, m) == DivideBy(SumAxis1(dZ), m)

\* The frame of backward_propagation_3layer at its return: its locals and
\* the two temporaries (A2 > 0), (A1 > 0).
backward_propagation_3layer(Xa, ya, A1, A2, A3, W2, W3) ==
    LET m == Xa.cols
        dZ3 == OutputDelta(A3, ya)
        dZ2 == HiddenDelta(W3, dZ3, A2)
        dZ1 == HiddenDelta(W2, dZ2, A1)
    IN  [m |-> m,
         dZ3 |-> dZ3,
         dW3 |-> WeightGradient(dZ3, A2, m),
         db3 |-> BiasGradient(dZ3, m),
         mask2 |-> ReluDerivative(A2),
         dZ2 |-> dZ2,
         dW2 |-> WeightGradient(dZ2, A1, m),
         db2 |-> BiasGradient(dZ2, m),
         mask1 |-> ReluDerivative(A1),
         dZ1 |-> dZ1,
         dW1 |-> WeightGradient(dZ1, Xa, m),
         db1 |-> BiasGradient(dZ1, m)]

\* The first operation of backward_propagation_3layer that numpy refuses.
HiddenDeltaRaises(W, dZ, A) ==
    ~DotAligned(Transpose(W), dZ) \/ ~Broadcasts(Dot(Transpose(W), dZ), A)

BackwardRaises(Xa, ya, A1, A2, A3, W2, W3) ==
    \/ ~Broadcasts(A3, ya)
    \/ ~DotAligned(OutputDelta(A3, ya), Transpose(A2))
    \/ HiddenDeltaRaises(W3, OutputDelta(A3, ya), A2)
    \/ ~DotAligned(HiddenDelta(W3, OutputDelta(A3, ya), A2), Transpose(A1))
    \/ HiddenDeltaRaises(W2, HiddenDelta(W3, OutputDelta(A3, ya), A2), A1)
    \/ ~DotAligned(HiddenDelta(W2, HiddenDelta(W3, OutputDelta(A3, ya), A2), A1),
                   Transpose(Xa))

\* A faulty variant: a decay term shrinks the old value before the step.
Step_Decay(P, dP, lr) ==
    Minus(Minus(P, Scaled(lr, P)), Scaled(lr, dP))

\* A faulty variant: the stepped array comes back transposed.
Step_Transposed(P, dP, lr) == Transpose(Minus(P, Scaled(lr, dP)))

\* P - learning_rate * dP
Step(P, dP, learning_rate) == Minus(P, Scaled(learning_rate, dP))

update_parameters_3layer(W1, b1, W2, b2, W3, b3, dW1, db1, dW2, db2, dW3, db3, learning_rate) ==
    [W1 |-> Step(W1, dW1, learning_rate),
     b1 |-> Step(b1, db1, learning_rate),
     W2 |-> Step(W2, dW2, learning_rate),
     b2 |-> Step(b2, db2, learning_rate),
     W3 |-> Step(W3, dW3, learning_rate),
     b3 |-> Step(b3, db3, learning_rate)]

\* -------------------------------------------------- train_three_layer
VARIABLES
    X, y, n_h1, n_h2, learning_rate, epochs,  \* the arguments of the call
    rng,        \* np.random's global generator
    pc,         \* where train_three_layer stands
    i,          \* the position of range(epochs): the epochs completed
    params,     \* W1, b1, W2, b2, W3, b3
    fwd,        \* the frame of the latest forward pass (A1, A2, A3 returned)
    cost,       \* the latest cost
    bwd,        \* the frame of the latest backward pass (the six gradients returned)
    costs,      \* the cost history
    result,     \* what the call returned
    calls,      \* history: how many calls of each stage have returned
    prov,       \* history: how many updates the parameters had seen that the
                \* latest forward pass and the latest cost were computed from;
                \* how often the parameters were initialized; what the latest
                \* initialization or update returned; what the latest forward
                \* and backward pass were called with
    sampled,    \* history: for each entry of costs, its epoch and its prov
    twin,       \* a second run of the same call, in another process whose
                \* generator hands out the same draws for the initial weights
                \* and other draws after them
    fd          \* the latest finite-difference estimate of a gradient entry

vars == <<unit, X, y, n_h1, n_h2, learning_rate, epochs, rng, pc, i, params, fwd,
          cost, bwd, costs, result, calls, prov, sampled, twin, fd>>

\* The arguments of the call, with the unit they are written in.
args == <<unit, X, y, n_h1, n_h2, learning_rate, epochs>>

ParamNames == {"W1", "b1", "W2", "b2", "W3", "b3"}
NoParams == [n \in ParamNames |-> Unbound]
NoFwd == [n \in {"Z1", "A1", "Z2", "A2", "Z3", "A3"} |-> Unbound]
NoBwd == [m |-> 0, dZ3 |-> Unbound, dW3 |-> Unbound, db3 |-> Unbound,
          mask2 |-> Unbound, dZ2 |-> Unbound, dW2 |-> Unbound, db2 |-> Unbound,
          mask1 |-> Unbound, dZ1 |-> Unbound, dW1 |-> Unbound, db1 |-> Unbound]
NoResult == [returned |-> FALSE, params |-> NoParams, costs |-> <<>>]
NoProv == [forward |-> 0, cost |-> 0, costEpoch |-> 0, inits |-> 0,
           returned |-> [by |-> "", epoch |-> 0, value |-> NoParams],
           used |-> NoParams,
           produced |-> [epoch |-> -1, A1 |-> Unbound, A2 |-> Unbound, A3 |-> Unbound],
           consumed |-> [epoch |-> -1, A1 |-> Unbound, A2 |-> Unbound, A3 |-> Unbound,
                         W2 |-> Unbound, W3 |-> Unbound]]
NoFd == [probed |-> FALSE, name |-> "", r |-> 0, c |-> 0,
         plus |-> NoCost, minus |-> NoCost, estimate |-> 0]
\* A second run that has not been called.
NoTwin == [rng |-> [stream |-> <<0>>, pos |-> 0],
           pc |-> "idle", i |-> 0, params |-> NoParams, fwd |-> NoFwd,
           cost |-> NoCost, bwd |-> NoBwd, costs |-> <<>>, result |-> NoResult]

\* The learning rate when the caller gives none.
DefaultLearningRate == RoundDiv(One, InvInitScale)

\* ---- the inputs of the model
\* Hidden widths the caller may pass: negative, zero and positive ones.
Widths == -1..MaxWidth
\* The draws of the generator repeat a pair of whole draws.
Draws == {-1, 1}
Streams == {<<a, b>> : a \in Draws, b \in Draws}
\* Sample counts of X and of y; they need not agree.
XCols == 1..MaxCols
YCols == 1..MaxCols
\* The magnitude of a feature: 100.0, which a weight of 0.01 takes to 1.0.
XMag == InvInitScale * One
\* X of shape (1, m): features of alternating sign.
AlternatingX(m) ==
    Array(1, m, [r \in 1..1 |-> [j \in 1..m |-> IF j % 2 = 1 THEN XMag ELSE -XMag]])
\* The y of shape (1, m) with entries in {0, 1} that are constant or alternate.
Labels(m) == {Array(1, m, [r \in 1..1 |-> [j \in 1..m |-> IF j % 2 = 1 THEN a ELSE b]]) :
                  a \in {0, One}, b \in {0, One}}
\* The notebook's data cell: X of shape (2, m), y = 1 where X[0] + X[1] > 0.
NotebookX(m, s) ==
    Array(2, m, [r \in 1..2 |-> [j \in 1..m |->
                    (IF j % 2 = 1 THEN s ELSE -s) * (XMag \div r)]])
NotebookY(Xa) ==
    Array(1, Xa.cols, [r \in 1..1 |-> [j \in 1..Xa.cols |->
                          IF Xa.v[1][j] + Xa.v[2][j] > 0 THEN One ELSE 0]])

\* Learning rates the caller may pass: -100.0 (an ascent), 0, 1.0 and 100.0
\* (which saturates the sigmoid within an epoch).
LearningRates == {-100 * One, 0, One, 100 * One}

\* Calls with few epochs, of every kind of argument; those whose X and y
\* differ in their sample counts with the learning rate 1.0 alone.
ShortCalls ==
    {c \in {[X |-> AlternatingX(mx), y |-> l, n_h1 |-> h1, n_h2 |-> h2,
             learning_rate |-> lr, epochs |-> e, stream |-> st] :
               mx \in XCols, l \in UNION {Labels(my) : my \in YCols},
               h1 \in Widths, h2 \in Widths,
               lr \in LearningRates, e \in {-1, 0, 1, 2}, st \in Streams} :
        c.X.cols = c.y.cols \/ c.learning_rate = One}

\* The notebook's run cell, its epoch count cut down to MaxEpochs: with the
\* default learning rate, and with the rate 1.0, under which the sigmoid
\* saturates within the first hundred epochs.
LongCalls ==
    {[X |-> NotebookX(m, s), y |-> NotebookY(NotebookX(m, s)),
      n_h1 |-> MaxWidth, n_h2 |-> MaxWidth - 1,
      learning_rate |-> lr, epochs |-> MaxEpochs, stream |-> st] :
        m \in XCols, s \in {-1, 1}, lr \in {DefaultLearningRate}, st \in Streams}
    \cup
    {[X |-> NotebookX(m, 1), y |-> NotebookY(NotebookX(m, 1)),
      n_h1 |-> MaxWidth, n_h2 |-> MaxWidth - 1,
      learning_rate |-> One, epochs |-> MaxEpochs, stream |-> st] :
        m \in XCols, st \in Streams}

\* How many draws initialize_parameters_3layer takes for the widths of a call.
InitialDraws(n_x, h1, h2, n_y) == Max2(0, h1 * n_x + h2 * h1 + n_y * h2)

\* The draws of the second run's generator: those of the first for the
\* initial weights, the opposite ones after them.
TwinStream(stream, n) ==
    [k \in 1..(n + Len(stream)) |->
        IF k <= n THEN stream[((k - 1) % Len(stream)) + 1]
        ELSE -stream[((k - 1) % Len(stream)) + 1]]

Init ==
    /\ unit = CoarseUnit
    /\ \E c \in ShortCalls \cup LongCalls :
        /\ X = c.X /\ y = c.y /\ n_h1 = c.n_h1 /\ n_h2 = c.n_h2
        /\ learning_rate = c.learning_rate /\ epochs = c.epochs
        /\ rng = [stream |-> c.stream, pos |-> 0]
        /\ pc = "call"
        /\ i = 0
        /\ params = NoParams /\ fwd = NoFwd /\ cost = NoCost /\ bwd = NoBwd
        /\ costs = <<>>
        /\ result = NoResult
        /\ calls = [forward |-> 0, cost |-> 0, backward |-> 0, update |-> 0]
        /\ prov = NoProv
        /\ sampled = <<>>
        /\ twin = [NoTwin EXCEPT
                     !.pc = "call",
                     !.rng = [stream |-> TwinStream(c.stream,
                                  InitialDraws(c.X.rows, c.n_h1, c.n_h2, c.y.rows)),
                              pos |-> 0]]
        /\ fd = NoFd

\* A faulty variant: the loop runs once more (an off-by-one in the range).
LoopContinues_Inclusive(n, e) == n <= e

\* for i in range(epochs): whether there is an epoch number n
LoopContinues(n, e) == n < e

\* A faulty variant: the cost is computed after the backward pass.
StageAfter_CostLate(stage) ==
    CASE stage = "forward" -> "backward"
      [] stage = "backward" -> "cost"
      [] stage = "cost" -> "update"
      [] stage = "update" -> "sample"

\* The statement that follows a stage within the loop body.
StageAfter(stage) ==
    CASE stage = "forward" -> "cost"
      [] stage = "cost" -> "backward"
      [] stage = "backward" -> "update"
      [] stage = "update" -> "sample"

\* A faulty variant: the sample is taken after every 100th epoch, not at epoch 0.
ShouldSample_Shifted(n) == (n + 1) % SampleInterval = 0

\* if i % 100 == 0
ShouldSample(n) == n % SampleInterval = 0

\* ---- the second run: the same statements on its own state
TwinInitialize ==
    IF twin.pc # "call" THEN twin
    ELSE IF InitializeRaises(X.rows, n_h1, n_h2, y.rows) THEN [twin EXCEPT !.pc = "raised"]
    ELSE [twin EXCEPT
            !.params = initialize_parameters_3layer(twin.rng, X.rows, n_h1, n_h2, y.rows),
            !.rng = RngAfterInitialize(twin.rng, X.rows, n_h1, n_h2, y.rows),
            !.costs = <<>>,
            !.pc = IF LoopContinues(0, epochs) THEN "forward" ELSE "return"]

TwinForward ==
    IF twin.pc # "forward" THEN twin
    ELSE IF ForwardRaises(X, twin.params.W1, twin.params.b1, twin.params.W2,
                          twin.params.b2, twin.params.W3, twin.params.b3)
         THEN [twin EXCEPT !.pc = "raised"]
    ELSE [twin EXCEPT
            !.fwd = forward_propagation_3layer(X, twin.params.W1, twin.params.b1,
                                               twin.params.W2, twin.params.b2,
                                               twin.params.W3, twin.params.b3),
            !.pc = StageAfter("forward")]

TwinCost ==
    IF twin.pc # "cost" THEN twin
    ELSE IF CostRaises(twin.fwd.A3, y) THEN [twin EXCEPT !.pc = "raised"]
    ELSE [twin EXCEPT !.cost = compute_cost_3layer(twin.fwd.A3, y),
                      !.pc = StageAfter("cost")]

TwinBackward ==
    IF twin.pc # "backward" THEN twin
    ELSE IF BackwardRaises(X, y, twin.fwd.A1, twin.fwd.A2, twin.fwd.A3,
                           twin.params.W2, twin.params.W3)
         THEN [twin EXCEPT !.pc = "raised"]
    ELSE [twin EXCEPT
            !.bwd = backward_propagation_3layer(X, y, twin.fwd.A1, twin.fwd.A2,
                                                twin.fwd.A3, twin.params.W2,
                                                twin.params.W3),
            !.pc = StageAfter("backward")]

TwinUpdate ==
    IF twin.pc # "update" THEN twin
    ELSE [twin EXCEPT
            !.params = update_parameters_3layer(
                           twin.params.W1, twin.params.b1, twin.params.W2,
                           twin.params.b2, twin.params.W3, twin.params.b3,
                           twin.bwd.dW1, twin.bwd.db1, twin.bwd.dW2, twin.bwd.db2,
                           twin.bwd.dW3, twin.bwd.db3, learning_rate),
            !.pc = StageAfter("update")]

TwinSample ==
    IF twin.pc # "sample" THEN twin
    ELSE [twin EXCEPT
            !.costs = IF ShouldSample(twin.i) THEN Append(twin.costs, twin.cost)
                      ELSE twin.costs,
            !.i = twin.i + 1,
            !.pc = IF LoopContinues(twin.i + 1, epochs) THEN "forward" ELSE "return"]

TwinReturn ==
    IF twin.pc # "return" THEN twin
    ELSE [twin EXCEPT
            !.result = [returned |-> TRUE, params |-> twin.params, costs |-> twin.costs],
            !.pc = "done"]

\* A faulty variant: the returned values are not assigned.
BindParameters_Dropped(old, new) == old

\* W1, b1, W2, b2, W3, b3 = ...: the names are bound to the returned values
\* (lines 253 and 260).
BindParameters(old, new) == new

\* Lines 252-254: the shapes, the initial parameters, the empty history.
Initialize ==
    /\ pc = "call"
    /\ IF InitializeRaises(X.rows, n_h1, n_h2, y.rows)
       THEN /\ pc' = "raised"
            /\ UNCHANGED <<rng, params, costs, prov>>
       ELSE /\ params' = BindParameters(params,
                             initialize_parameters_3layer(rng, X.rows, n_h1, n_h2, y.rows))
            /\ rng' = RngAfterInitialize(rng, X.rows, n_h1, n_h2, y.rows)
            /\ costs' = <<>>
            /\ prov' = [prov EXCEPT
                          !.inits = @ + 1,
                          !.returned =
                              [by |-> "initialize", epoch |-> 0,
                               value |-> initialize_parameters_3layer(
                                             rng, X.rows, n_h1, n_h2, y.rows)]]
            /\ pc' = IF LoopContinues(0, epochs) THEN "forward" ELSE "return"
    /\ twin' = TwinInitialize
    /\ UNCHANGED <<fd, args, i, fwd, cost, bwd, result, calls, sampled>>

\* A faulty variant: the activations of the first forward pass are kept and
\* later ones are not assigned.
BindActivations_Stale(old, new) == IF old = NoFwd THEN new ELSE old

\* A1, A2, A3 = ...: the names are bound to the returned activations
\* (line 257).
BindActivations(old, new) == new

\* Line 257.
Forward ==
    /\ pc = "forward"
    /\ IF ForwardRaises(X, params.W1, params.b1, params.W2, params.b2,
                        params.W3, params.b3)
       THEN /\ pc' = "raised"
            /\ UNCHANGED <<fwd, calls, prov>>
       ELSE /\ LET new == forward_propagation_3layer(X, params.W1, params.b1, params.W2,
                                                     params.b2, params.W3, params.b3)
               IN  /\ fwd' = BindActivations(fwd, new)
                   /\ prov' = [prov EXCEPT
                                 !.forward = calls.update, !.used = params,
                                 !.produced = [epoch |-> i, A1 |-> new.A1, A2 |-> new.A2,
                                               A3 |-> new.A3]]
            /\ calls' = [calls EXCEPT !.forward = @ + 1]
            /\ pc' = StageAfter("forward")
    /\ twin' = TwinForward
    /\ UNCHANGED <<fd, args, rng, i, params, cost, bwd, costs, result, sampled>>

\* Line 258.
Cost ==
    /\ pc = "cost"
    /\ IF CostRaises(fwd.A3, y)
       THEN /\ pc' = "raised"
            /\ UNCHANGED <<cost, calls, prov, fwd, y>>
       ELSE /\ cost' = compute_cost_3layer(fwd.A3, y)
            /\ LET after == CostOperands(fwd.A3, y)
               IN  /\ fwd' = [fwd EXCEPT !.A3 = after.A3]
                   /\ y' = after.y
            /\ calls' = [calls EXCEPT !.cost = @ + 1]
            /\ prov' = [prov EXCEPT !.cost = prov.forward, !.costEpoch = i]
            /\ pc' = StageAfter("cost")
    /\ twin' = TwinCost
    /\ UNCHANGED <<fd, unit, X, n_h1, n_h2, learning_rate, epochs, rng, i, params,
                   bwd, costs, result, sampled>>

\* Line 259.
Backward ==
    /\ pc = "backward"
    /\ IF BackwardRaises(X, y, fwd.A1, fwd.A2, fwd.A3, params.W2, params.W3)
       THEN /\ pc' = "raised"
            /\ UNCHANGED <<bwd, calls, prov>>
       ELSE /\ bwd' = backward_propagation_3layer(X, y, fwd.A1, fwd.A2, fwd.A3,
                                                  params.W2, params.W3)
            /\ prov' = [prov EXCEPT
                          !.consumed = [epoch |-> i, A1 |-> fwd.A1, A2 |-> fwd.A2,
                                        A3 |-> fwd.A3, W2 |-> params.W2,
                                        W3 |-> params.W3]]
            /\ calls' = [calls EXCEPT !.backward = @ + 1]
            /\ pc' = StageAfter("backward")
    /\ twin' = TwinBackward
    /\ UNCHANGED <<fd, args, rng, i, params, fwd, cost, costs, result, sampled>>

\* Line 260.
Update ==
    /\ pc = "update"
    /\ LET new == update_parameters_3layer(params.W1, params.b1, params.W2, params.b2,
                                           params.W3, params.b3,
                                           bwd.dW1, bwd.db1, bwd.dW2, bwd.db2,
                                           bwd.dW3, bwd.db3, learning_rate)
       IN  /\ params' = BindParameters(params, new)
           /\ prov' = [prov EXCEPT
                         !.returned = [by |-> "update", epoch |-> i, value |-> new]]
    /\ calls' = [calls EXCEPT !.update = @ + 1]
    /\ pc' = StageAfter("update")
    /\ twin' = TwinUpdate
    /\ UNCHANGED <<fd, args, rng, i, fwd, cost, bwd, costs, result, sampled>>

\* Lines 261-263 and the step of the loop.
Sample ==
    /\ pc = "sample"
    /\ IF ShouldSample(i)
       THEN /\ costs' = Append(costs, cost)
            /\ sampled' = Append(sampled, [epoch |-> i, costEpoch |-> prov.costEpoch,
                                           updates |-> prov.cost])
       ELSE UNCHANGED <<costs, sampled>>
    /\ i' = i + 1
    /\ pc' = IF LoopContinues(i + 1, epochs) THEN "forward" ELSE "return"
    /\ twin' = TwinSample
    /\ UNCHANGED <<fd, args, rng, params, fwd, cost, bwd, result, calls, prov>>

\* Line 265.
Return ==
    /\ pc = "return"
    /\ result' = [returned |-> TRUE, params |-> params, costs |-> costs]
    /\ pc' = "done"
    /\ twin' = TwinReturn
    /\ UNCHANGED <<fd, args, rng, i, params, fwd, cost, bwd, costs, calls, prov, sampled>>

Next == Initialize \/ Forward \/ Cost \/ Backward \/ Update \/ Sample \/ Return

Spec == Init /\ [][Next]_vars

\* --------------------------------------------- the end-to-end scenario
\* The notebook's run cell, train_three_layer(X, y, 4, 3) with the default
\* learning rate and the default 3000 epochs, at the fine unit.  The 400
\* samples of the seeded generator are stood for by ScenarioCols samples
\* with features j/2 and j/4 of alternating sign, labelled as the
\* data cell labels them; both classes occur, as in the notebook's data.
ScenarioX(m, s) ==
    Array(2, m, [r \in 1..2 |-> [j \in 1..m |->
                    (IF j % 2 = 1 THEN s ELSE -s) * ((j * One) \div (2 * r))]])

ScenarioInit ==
    /\ unit = FineUnit
    /\ \E m \in {ScenarioCols}, s \in {1}, st \in {<<1, 1>>, <<1, -1>>} :
          /\ X = ScenarioX(m, s)
          /\ y = NotebookY(ScenarioX(m, s))
          /\ rng = [stream |-> st, pos |-> 0]
    /\ n_h1 = NotebookWidth1 /\ n_h2 = NotebookWidth2
    /\ learning_rate = DefaultLearningRate /\ epochs = DefaultEpochs
    /\ pc = "call"
    /\ i = 0
    /\ params = NoParams /\ fwd = NoFwd /\ cost = NoCost /\ bwd = NoBwd
    /\ costs = <<>>
    /\ result = NoResult
    /\ calls = [forward |-> 0, cost |-> 0, backward |-> 0, update |-> 0]
    /\ prov = NoProv
    /\ sampled = <<>>
    /\ twin = NoTwin
    /\ fd = NoFd

ScenarioSpec == ScenarioInit /\ [][Next]_vars

\* ------------------------------------------------- the gradient check
\* One forward pass, cost and backward pass of a small fixed network at the
\* fine unit, and then central finite differences of the cost, one
\* parameter entry at a time.

\* The step h of the differences, 2^-6, and the tolerance 1e-5.
FdStep == FineUnit \div 2^6
Tolerance == RoundDiv(FineUnit, 100000)

\* The inputs of the check: X of shape (2, m) with features 1/2 and 1/4 of
\* alternating sign, and labels as in the training runs.
GradX(m, s) ==
    Array(2, m, [r \in 1..2 |-> [j \in 1..m |->
                    (IF j % 2 = 1 THEN s ELSE -s) * (One \div (2 * r))]])

\* A constant array.
Filled(r, c, a) == Array(r, c, [k \in 1..r |-> [j \in 1..c |-> a]])

\* The networks of the check, of the widths 2, 2, h2, 1: weights of
\* magnitude 1/2 with the signs of a stream of draws, biases 1/16, 1/16
\* and 1/8.
GradParams(stream, h2) ==
    LET g == [stream |-> stream, pos |-> 0]
    IN  [W1 |-> Scaled(One \div 2, Randn(g, 2, 2)),
         b1 |-> Filled(2, 1, One \div 16),
         W2 |-> Scaled(One \div 2, Randn(Advance(g, 4), h2, 2)),
         b2 |-> Filled(h2, 1, One \div 16),
         W3 |-> Scaled(One \div 2, Randn(Advance(g, 4 + 2 * h2), 1, h2)),
         b3 |-> Filled(1, 1, One \div 8)]

GradInit ==
    /\ unit = FineUnit
    /\ \E m \in XCols, s \in {-1, 1}, st \in Streams, h2 \in {1, 2} :
          /\ X = GradX(m, s)
          /\ y \in Labels(m)
          /\ n_h1 = 2 /\ n_h2 = h2
          /\ params = GradParams(st, h2)
          /\ rng = [stream |-> st, pos |-> 4 + 4 * h2]
    /\ learning_rate = 0 /\ epochs = 1
    /\ pc = "forward"
    /\ i = 0
    /\ fwd = NoFwd /\ cost = NoCost /\ bwd = NoBwd
    /\ costs = <<>>
    /\ result = NoResult
    /\ calls = [forward |-> 0, cost |-> 0, backward |-> 0, update |-> 0]
    /\ prov = NoProv
    /\ sampled = <<>>
    /\ twin = NoTwin
    /\ fd = NoFd

\* The parameters with the entry (r, c) of one of them moved by d.
Perturbed(P, name, r, c, d) == [P EXCEPT ![name].v[r][c] = @ + d]

\* The cost as a function of the parameters: a forward pass and the cost.
CostAt(P) ==
    compute_cost_3layer(
        forward_propagation_3layer(X, P.W1, P.b1, P.W2, P.b2, P.W3, P.b3).A3, y)

\* (J(theta + h) - J(theta - h)) / 2h
CentralDifference(plus, minus) == ((plus.v - minus.v) * (FineUnit \div FdStep)) \div 2

\* Once the gradients are there: the estimate for one entry of one
\* parameter, any of them.
Probe ==
    /\ pc = "update" /\ ~fd.probed
    /\ \E name \in ParamNames :
         \E r \in 1..params[name].rows : \E c \in 1..params[name].cols :
            LET plus == CostAt(Perturbed(params, name, r, c, FdStep))
                minus == CostAt(Perturbed(params, name, r, c, -FdStep))
            IN  fd' = [probed |-> TRUE, name |-> name, r |-> r, c |-> c,
                       plus |-> plus, minus |-> minus,
                       estimate |-> CentralDifference(plus, minus)]
    /\ UNCHANGED <<args, rng, pc, i, params, fwd, cost, bwd, costs, result, calls,
                   prov, sampled, twin>>

GradNext == Forward \/ Cost \/ Backward \/ Probe

GradSpec == GradInit /\ [][GradNext]_vars

\* ----------------------------------------------------------------------
\* The claims.

\* C1: in every epoch the four stages run in the order forward, cost,
\* backward, update: a stage runs only after the previous stage of the same
\* epoch has returned, and by the end of an epoch each has run exactly once
\* (epoch i starts with i calls of each stage made and ends with i + 1).
C1_StagesInOrder ==
    /\ calls.forward >= calls.cost
    /\ calls.cost >= calls.backward
    /\ calls.backward >= calls.update
    /\ calls.update >= calls.forward - 1
    /\ pc = "forward" =>
         calls = [forward |-> i, cost |-> i, backward |-> i, update |-> i]
    /\ pc = "cost" =>
         calls = [forward |-> i + 1, cost |-> i, backward |-> i, update |-> i]
    /\ pc = "backward" =>
         calls = [forward |-> i + 1, cost |-> i + 1, backward |-> i, update |-> i]
    /\ pc = "update" =>
         calls = [forward |-> i + 1, cost |-> i + 1, backward |-> i + 1, update |-> i]
    /\ pc = "sample" =>
         calls = [forward |-> i + 1, cost |-> i + 1, backward |-> i + 1,
                  update |-> i + 1]
    /\ pc \in {"return", "done"} =>
         calls = [forward |-> i, cost |-> i, backward |-> i, update |-> i]

\* The second epoch has run its four stages.
C1_Witness ==
    /\ pc = "sample" /\ i = 1
    /\ calls = [forward |-> 2, cost |-> 2, backward |-> 2, update |-> 2]

\* A call numpy refuses nothing of: sample counts agree, no negative width.
WellFormed == X.cols = y.cols /\ n_h1 >= 0 /\ n_h2 >= 0

\* The statements train_three_layer has left to run, at most.
StepsLeft ==
    LET left == 5 * (Max2(epochs, 0) - i)
    IN  CASE pc = "call" -> 5 * Max2(epochs, 0) + 2
          [] pc = "forward" -> left + 1
          [] pc = "cost" -> left
          [] pc = "backward" -> left - 1
          [] pc = "update" -> left - 2
          [] pc = "sample" -> left - 3
          [] pc = "return" -> 1
          [] pc \in {"done", "raised"} -> 0

\* C2: with epochs >= 1 the call terminates (every step brings its end
\* nearer) after exactly `epochs` iterations and updates, never more, and
\* then returns the parameters and the cost history; on a well-formed call
\* nothing, a non-finite cost included, ends it early.
C2_ExactlyEpochsIterations ==
    [][epochs >= 1 =>
         /\ StepsLeft' < StepsLeft /\ StepsLeft' >= 0
         /\ i' <= epochs /\ calls'.update <= epochs /\ calls'.forward <= epochs
         /\ pc' = "done" =>
               /\ i' = epochs /\ calls'.update = epochs
               /\ result' = [returned |-> TRUE, params |-> params', costs |-> costs']
         /\ pc' # "done" => ~result'.returned
         /\ WellFormed => pc' # "raised"]_vars

\* A run of two epochs whose last cost was not finite has returned.
C2_Witness ==
    /\ pc = "done" /\ epochs = 2 /\ calls.update = 2
    /\ ~IsFinite(cost) /\ result.returned

\* The number of n in 0..(k - 1) with n mod SampleInterval = 0.
SampledBelow(k) == (k + SampleInterval - 1) \div SampleInterval

\* C3: the cost history holds one entry for each completed epoch whose
\* index is a multiple of 100, in increasing order and nothing else; the
\* entry of epoch n is the cost computed in epoch n from the parameters
\* after exactly n updates; the returned history has ceil(epochs/100)
\* entries.
C3_CostHistory ==
    /\ Len(costs) = SampledBelow(i)
    /\ Len(sampled) = Len(costs)
    /\ \A k \in 1..Len(sampled) :
          sampled[k] = [epoch |-> (k - 1) * SampleInterval,
                        costEpoch |-> (k - 1) * SampleInterval,
                        updates |-> (k - 1) * SampleInterval]
    /\ (i >= 1 /\ (i - 1) % SampleInterval = 0 /\ pc \in {"forward", "cost", "return", "done"})
          => costs[Len(costs)] = cost
    /\ pc \in {"backward", "update", "sample"} => cost = compute_cost_3layer(fwd.A3, y)
    /\ pc = "done" =>
          /\ result.costs = costs
          /\ Len(result.costs) = SampledBelow(Max2(epochs, 0))

\* A run longer than one interval has returned two different samples.
C3_Witness ==
    /\ pc = "done" /\ epochs > SampleInterval
    /\ Len(result.costs) = 2
    /\ result.costs[1] # result.costs[2]

\* f[1] + ... + f[n]
RECURSIVE SumFn(_, _)
SumFn(f, n) == IF n = 0 THEN 0 ELSE SumFn(f, n - 1) + f[n]

\* Every entry of dZ is the back-propagated value where Z > 0 and 0
\* elsewhere, and the mask is 1 exactly where Z > 0.
MaskFollowsZ(mask, Z, dZ, back) ==
    /\ mask.rows = Z.rows /\ mask.cols = Z.cols
    /\ \A r \in 1..Z.rows : \A j \in 1..Z.cols :
          /\ mask.v[r][j] = (IF Z.v[r][j] > 0 THEN 1 ELSE 0)
          /\ dZ.v[r][j] = (IF Z.v[r][j] > 0 THEN back.v[r][j] ELSE 0)

\* C4: for both hidden layers and every entry, the ReLU derivative mask of
\* the backward pass is 1 exactly where the pre-activation Z is > 0 and 0
\* elsewhere (0 at z = 0 and z = -1, 1 at z = +1), although the code takes
\* it from the post-activation A.
C4_ReluMaskIsPreActivation ==
    pc = "update" =>
        /\ MaskFollowsZ(bwd.mask2, fwd.Z2, bwd.dZ2, Dot(Transpose(params.W3), bwd.dZ3))
        /\ MaskFollowsZ(bwd.mask1, fwd.Z1, bwd.dZ1, Dot(Transpose(params.W2), bwd.dZ2))

\* A backward pass has met z = +1, z = -1 and z = 0.
C4_Witness ==
    /\ pc = "update"
    /\ \E r \in 1..fwd.Z1.rows : \E j \in 1..fwd.Z1.cols :
          fwd.Z1.v[r][j] = One /\ bwd.mask1.v[r][j] = 1
    /\ \E r \in 1..fwd.Z1.rows : \E j \in 1..fwd.Z1.cols :
          fwd.Z1.v[r][j] = -One /\ bwd.mask1.v[r][j] = 0
    /\ \E r \in 1..fwd.Z2.rows : \E j \in 1..fwd.Z2.cols :
          /\ fwd.Z2.v[r][j] = 0 /\ bwd.mask2.v[r][j] = 0
          /\ Dot(Transpose(params.W3), bwd.dZ3).v[r][j] # 0

\* C5 (as the claim states it): once initialization has run with a width
\* that is not positive, the call has ended in an error and no parameter
\* exists.
C5_RejectsNonPositiveWidth ==
    (pc # "call" /\ (X.rows <= 0 \/ n_h1 <= 0 \/ n_h2 <= 0 \/ y.rows <= 0))
        => (pc = "raised" /\ params = NoParams)

\* C6 (as the claim states it): with a learning rate <= 0 no update ever
\* returns and the parameters stay as initialized.
C6_RejectsNonPositiveRate ==
    learning_rate <= 0 => calls.update = 0

\* C7 (as the claim states it): a call with epochs <= 0 or with sample
\* counts that differ ends in an error before anything is initialized or
\* computed, and returns nothing.
C7_RejectsBadCall ==
    (pc # "call" /\ (epochs <= 0 \/ X.cols # y.cols))
        => /\ pc = "raised"
           /\ params = NoParams /\ calls.forward = 0 /\ ~result.returned

\* The parameters and their gradients, layer by layer.
Gradients == {<<"W1", "dW1">>, <<"b1", "db1">>, <<"W2", "dW2">>,
              <<"b2", "db2">>, <<"W3", "dW3">>, <<"b3", "db3">>}

\* C8: the update sets every entry of every W and b to its old value minus
\* learning_rate times the entry of its own gradient, and nothing else
\* enters: no other layer, no earlier epoch, no momentum, scaling or decay.
C8_PlainGradientStep ==
    [][pc = "update" =>
         \A g \in Gradients :
             LET old == params[g[1]]
                 new == params'[g[1]]
                 d == bwd[g[2]]
             IN  /\ new.rows = old.rows /\ new.cols = old.cols
                 /\ \A r \in 1..old.rows : \A c \in 1..old.cols :
                       new.v[r][c] = old.v[r][c] - RoundDiv(learning_rate * d.v[r][c], One)]_vars

NonZero(A) == \E r \in 1..A.rows : \E c \in 1..A.cols : A.v[r][c] # 0

\* An update has run with a positive rate on non-zero weights, with a
\* non-zero gradient for every parameter.
C8_Witness ==
    /\ pc = "sample" /\ learning_rate > 0
    /\ \A g \in Gradients : NonZero(bwd[g[2]])
    /\ NonZero(params.W1) /\ NonZero(params.W2) /\ NonZero(params.W3)

\* dW = (dZ . A^T) / m and db = (row sums of dZ) / m as a column.
GradientsOf(dZ, A, dW, db, m) ==
    /\ dW.rows = dZ.rows /\ dW.cols = A.rows
    /\ \A r \in 1..dZ.rows : \A c \in 1..A.rows :
          dW.v[r][c] =
              RoundDiv(SumFn([j \in 1..dZ.cols |-> Mul(dZ.v[r][j], A.v[c][j])], dZ.cols), m)
    /\ db.rows = dZ.rows /\ db.cols = 1
    /\ \A r \in 1..dZ.rows :
          /\ db.v[r][1] = RoundDiv(SumFn([j \in 1..dZ.cols |-> dZ.v[r][j]], dZ.cols), m)
          /\ m = 1 => db.v[r][1] = dZ.v[r][1]

\* C9: with m = X's sample count >= 1 the backward pass returns
\* dZ3 = A3 - y, and for every layer dW = (dZ . A_prev^T) / m and
\* db = (row-wise sum of dZ) / m as a column vector; for m = 1, db is the
\* single column of dZ.
C9_BackwardFormulas ==
    pc = "update" =>
        /\ bwd.m = X.cols /\ bwd.m >= 1
        /\ bwd.dZ3.rows = fwd.A3.rows /\ bwd.dZ3.cols = fwd.A3.cols
        /\ \A r \in 1..fwd.A3.rows : \A j \in 1..fwd.A3.cols :
              bwd.dZ3.v[r][j] = fwd.A3.v[r][j] - At(y, r, j)
        /\ GradientsOf(bwd.dZ3, fwd.A2, bwd.dW3, bwd.db3, X.cols)
        /\ GradientsOf(bwd.dZ2, fwd.A1, bwd.dW2, bwd.db2, X.cols)
        /\ GradientsOf(bwd.dZ1, X, bwd.dW1, bwd.db1, X.cols)

\* A backward pass on a single sample has returned non-zero gradients.
C9_Witness ==
    /\ pc = "update" /\ X.cols = 1 /\ y.cols = 1
    /\ NonZero(bwd.dW3) /\ NonZero(bwd.dW2) /\ NonZero(bwd.dW1)
    /\ NonZero(bwd.db3) /\ bwd.db3.v[1][1] = bwd.dZ3.v[1][1]
    /\ NonZero(bwd.db2) /\ NonZero(bwd.db1)

\* Z = W . A + b with the bias added to every column.
LinearOf(Z, W, A, b) ==
    /\ Z.rows = W.rows /\ Z.cols = A.cols
    /\ \A r \in 1..W.rows : \A j \in 1..A.cols :
          Z.v[r][j] = SumFn([k \in 1..W.cols |-> Mul(W.v[r][k], A.v[k][j])], W.cols)
                      + b.v[r][1]

\* A = max(0, Z) entry by entry, hence A >= 0.
ReluOf(A, Z) ==
    /\ A.rows = Z.rows /\ A.cols = Z.cols
    /\ \A r \in 1..Z.rows : \A j \in 1..Z.cols :
          /\ A.v[r][j] = (IF Z.v[r][j] > 0 THEN Z.v[r][j] ELSE 0)
          /\ A.v[r][j] >= 0

\* C10: the forward pass computes Z1 = W1 X + b1, Z2 = W2 A1 + b2,
\* Z3 = W3 A2 + b3 in this order, the bias added to every column, with
\* A1 = max(0, Z1), A2 = max(0, Z2) and the sigmoid on layer 3 alone; every
\* entry of A1 and A2 is >= 0 and every entry of A3 lies in [0, 1].
C10_ForwardFormulas ==
    pc = "cost" =>
        /\ LinearOf(fwd.Z1, params.W1, X, params.b1)
        /\ ReluOf(fwd.A1, fwd.Z1)
        /\ LinearOf(fwd.Z2, params.W2, fwd.A1, params.b2)
        /\ ReluOf(fwd.A2, fwd.Z2)
        /\ LinearOf(fwd.Z3, params.W3, fwd.A2, params.b3)
        /\ fwd.A3.rows = fwd.Z3.rows /\ fwd.A3.cols = fwd.Z3.cols
        /\ \A r \in 1..fwd.Z3.rows : \A j \in 1..fwd.Z3.cols :
              /\ fwd.A3.v[r][j] = Div(One, One + Exp(-fwd.Z3.v[r][j]))
              /\ fwd.A3.v[r][j] \in 0..One
              /\ fwd.Z3.v[r][j] = 0 => 2 * fwd.A3.v[r][j] = One

\* A forward pass over two samples with non-zero biases in layers 2 and 3
\* has cut a negative pre-activation to 0 and kept a positive one.
C10_Witness ==
    /\ pc = "cost" /\ X.cols = 2
    /\ NonZero(params.b2) /\ NonZero(params.b3)
    /\ \E r \in 1..fwd.Z1.rows : \E j \in 1..fwd.Z1.cols :
          fwd.Z1.v[r][j] < 0 /\ fwd.A1.v[r][j] = 0
    /\ \E r \in 1..fwd.Z2.rows : \E j \in 1..fwd.Z2.cols :
          fwd.Z2.v[r][j] > 0 /\ fwd.A2.v[r][j] = fwd.Z2.v[r][j]
    /\ \E r \in 1..fwd.Z3.rows : \E j \in 1..fwd.Z3.cols :
          fwd.A3.v[r][j] \notin {0, One}

SameShape(A, B) == A.rows = B.rows /\ A.cols = B.cols

\* C11: whenever the forward pass has returned, its output A3 has the shape
\* (n_y, m) with n_y the rows of y and m the samples of X; whenever the
\* backward pass has returned, every dW has the shape of its W and every db
\* the shape of its b.
C11_GradientShapes ==
    /\ fwd # NoFwd => fwd.A3.rows = y.rows /\ fwd.A3.cols = X.cols
    /\ bwd # NoBwd => \A g \in Gradients : SameShape(bwd[g[2]], params[g[1]])

\* A backward pass over two samples has returned for layers of the widths
\* 2, 2, 1, 1, whose weight matrices are not square.
C11_Witness ==
    /\ pc = "update" /\ X.cols = 2
    /\ X.rows = 2 /\ n_h1 = 2 /\ n_h2 = 1 /\ y.rows = 1
    /\ fwd.A3.rows = 1 /\ fwd.A3.cols = 2
    /\ bwd.dW2.rows = 1 /\ bwd.dW2.cols = 2
    /\ bwd.db1.rows = 2 /\ bwd.db1.cols = 1

\* C12: two runs of train_three_layer with the same arguments and the same
\* draws for the initial weights stand at the same statement with the same
\* parameters, activations, cost, gradients and cost history after every
\* step, and return the same; what their generators hand out after the
\* initial draws has no influence.
C12_SameTrajectory ==
    /\ twin.pc = pc /\ twin.i = i
    /\ twin.params = params
    /\ twin.fwd = fwd /\ twin.cost = cost /\ twin.bwd = bwd
    /\ twin.costs = costs
    /\ twin.result = result

\* Two runs whose generators differ after the initial draws have both
\* returned, after two epochs, non-zero weights and a cost history.
C12_Witness ==
    /\ pc = "done" /\ twin.pc = "done" /\ epochs = 2
    /\ \E k \in 1..2 : DrawAt(twin.rng, k) # DrawAt(rng, k)
    /\ NonZero(params.W1) /\ NonZero(params.W2) /\ NonZero(params.W3)
    /\ params # initialize_parameters_3layer([rng EXCEPT !.pos = 0], X.rows, n_h1,
                                             n_h2, y.rows)
    /\ twin.result.returned /\ Len(twin.result.costs) = 1

\* Some prediction is exactly 0 or exactly 1.
Saturated(A) == \E r \in 1..A.rows : \E c \in 1..A.cols : A.v[r][c] \in {0, One}

\* C13: when a prediction in A3 is exactly 0 or 1, the cost computed from
\* it is not finite (+inf or nan) and is the value of the formula, not a
\* clamped one; no error comes of it on a well-formed call; if the epoch is
\* a sampled one, the last entry of the history is that very value; and the
\* run goes on to its last epoch, each epoch with one forward pass and one
\* plain update.
C13_NonFiniteCostPropagated ==
    /\ (pc \in {"backward", "update", "sample"} /\ Saturated(fwd.A3)) =>
          /\ cost \in {PosInf, NaN}
          /\ cost = compute_cost_3layer(fwd.A3, y)
    /\ (pc \in {"forward", "return", "done"} /\ i >= 1 /\ ShouldSample(i - 1)
           /\ Saturated(fwd.A3)) =>
          /\ costs[Len(costs)] \in {PosInf, NaN}
          /\ costs[Len(costs)] = compute_cost_3layer(fwd.A3, y)
    /\ (cost \in {PosInf, NegInf, NaN} /\ WellFormed) =>
          /\ pc # "raised"
          /\ calls.forward <= i + 1
          /\ pc = "done" => calls.update = epochs /\ result.costs = costs

\* A run has returned a history whose first entry is finite and whose
\* second entry, of epoch 100, is not, the prediction of that epoch being
\* saturated.
C13_Witness ==
    /\ pc = "done" /\ calls.update = epochs
    /\ Len(result.costs) = 2
    /\ IsFinite(result.costs[1]) /\ result.costs[2] \in {PosInf, NaN}
    /\ ShouldSample(i - 1) /\ Saturated(fwd.A3)

\* The gradient that belongs to a parameter.
GradientOf(name) == bwd[CHOOSE g \in {h[2] : h \in {k \in Gradients : k[1] = name}} : TRUE]

\* C14: for the small fixed networks and inputs of the gradient check, every
\* entry of dW1, db1, dW2, db2, dW3, db3 returned by the backward pass
\* differs from the central finite difference of the cost with respect to
\* that parameter entry by at most 1e-5.
C14_GradientCheck ==
    fd.probed =>
        /\ IsFinite(fd.plus) /\ IsFinite(fd.minus)
        /\ Abs(GradientOf(fd.name).v[fd.r][fd.c] - fd.estimate) <= Tolerance

\* An entry of W1 with a gradient a hundred times the tolerance has been
\* estimated from two costs that differ.
C14_Witness ==
    /\ fd.probed /\ fd.name = "W1"
    /\ Abs(bwd.dW1.v[fd.r][fd.c]) > 100 * Tolerance
    /\ fd.plus # fd.minus
    /\ X.cols = 2

C16_ParametersChained ==
    /\ prov.inits = (IF pc = "call" \/ (pc = "raised" /\ params = NoParams) THEN 0 ELSE 1)
    /\ calls.forward >= 1 => calls.update <= calls.forward
    /\ pc = "forward" => params = prov.returned.value
    /\ pc \in {"cost", "backward", "update"} =>
          /\ prov.used = prov.returned.value
          /\ prov.returned.by = (IF i = 0 THEN "initialize" ELSE "update")
          /\ i > 0 => prov.returned.epoch = i - 1
    /\ (pc = "done" /\ epochs >= 1) =>
          /\ result.params = prov.returned.value
          /\ prov.returned = [by |-> "update", epoch |-> epochs - 1, value |-> params]

\* The forward pass of the second epoch has been called with parameters
\* that the first update changed.
C16_Witness ==
    /\ pc = "cost" /\ i = 1
    /\ prov.used = prov.returned.value /\ prov.returned.by = "update"
    /\ prov.used # initialize_parameters_3layer([rng EXCEPT !.pos = 0], X.rows, n_h1,
                                                n_h2, y.rows)
    /\ NonZero(prov.used.W1)

\* C17: in every epoch the backward pass is called with exactly the
\* activations A1, A2, A3 that the forward pass of the same epoch returned
\* and with the W2 and W3 that this forward pass was called with, the
\* values before the epoch's update; it never reads activations of an
\* earlier epoch.
C17_BackwardUsesOwnForward ==
    calls.backward >= 1 =>
        /\ prov.consumed.epoch = (IF pc \in {"update", "sample"} THEN i ELSE i - 1)
        /\ pc \in {"update", "sample"} =>
              /\ prov.produced.epoch = prov.consumed.epoch
              /\ prov.consumed.A1 = prov.produced.A1
              /\ prov.consumed.A2 = prov.produced.A2
              /\ prov.consumed.A3 = prov.produced.A3
              /\ prov.consumed.W2 = prov.used.W2
              /\ prov.consumed.W3 = prov.used.W3
        /\ pc = "update" =>
              /\ prov.consumed.W2 = params.W2 /\ prov.consumed.W3 = params.W3
              /\ bwd = backward_propagation_3layer(X, y, prov.produced.A1,
                                                   prov.produced.A2, prov.produced.A3,
                                                   prov.used.W2, prov.used.W3)

\* The backward pass of the second epoch has been called with an output
\* activation and a W3 that differ from those of the first epoch.
C17_Witness ==
    /\ pc = "update" /\ i = 1
    /\ prov.consumed.epoch = 1
    /\ LET P == initialize_parameters_3layer([rng EXCEPT !.pos = 0], X.rows, n_h1,
                                              n_h2, y.rows)
           F == forward_propagation_3layer(X, P.W1, P.b1, P.W2, P.b2, P.W3, P.b3)
       IN  /\ prov.consumed.A3 # F.A3
           /\ prov.consumed.W3 # P.W3

\* A is a two-dimensional array of shape (r, c).
HasShape(A, r, c) ==
    /\ A.rows = r /\ A.cols = c
    /\ Len(A.v) = r
    /\ \A k \in 1..r : Len(A.v[k]) = c

\* P holds the six parameters of a network of widths n0, n1, n2, n3.
ThreeLayers(P, n0, n1, n2, n3) ==
    /\ DOMAIN P = ParamNames
    /\ HasShape(P.W1, n1, n0) /\ HasShape(P.b1, n1, 1)
    /\ HasShape(P.W2, n2, n1) /\ HasShape(P.b2, n2, 1)
    /\ HasShape(P.W3, n3, n2) /\ HasShape(P.b3, n3, 1)

\* C18: in every state after initialization, after any number of epochs,
\* there are exactly three layers of parameters; W_l has as many rows as
\* layer l has units and as many columns as layer l-1 has, b_l is a column
\* of layer l's width; no update changes a shape or drops a parameter.
C18_ParameterShapes ==
    /\ pc \notin {"call", "raised"} => params # NoParams
    /\ params # NoParams => ThreeLayers(params, X.rows, n_h1, n_h2, y.rows)
    /\ pc = "done" => ThreeLayers(result.params, X.rows, n_h1, n_h2, y.rows)

\* Two updates have changed parameters none of whose shapes is square or
\* a single entry only.
C18_Witness ==
    /\ pc = "done" /\ epochs >= 2 /\ calls.update >= 2
    /\ n_h1 >= 2 /\ X.cols >= 2
    /\ params.W1.rows # params.W1.cols
    /\ params # initialize_parameters_3layer([rng EXCEPT !.pos = 0], X.rows, n_h1,
                                             n_h2, y.rows)
    /\ params.b3 # Zeros(y.rows, 1)

\* C19: compute_cost_3layer is a pure function: the call of line 258
\* leaves its operands A3 and y as they were and changes no parameter, no
\* gradient and no entry of the cost history; within an epoch only the
\* update produces new parameter values.
C19_CostIsPure ==
    [][/\ pc = "cost" =>
             /\ fwd' = fwd /\ y' = y /\ X' = X
             /\ params' = params /\ bwd' = bwd
             /\ costs' = costs /\ result' = result
       /\ (params' # params /\ pc # "call") => pc = "update"]_vars

\* In an epoch after the first the cost has been computed from an output
\* activation with an entry of exactly 0 or 1, on parameters an update has
\* produced.
C19_Witness ==
    /\ pc = "backward" /\ i >= 1 /\ calls.cost = i + 1
    /\ \E r \in 1..fwd.A3.rows : \E c \in 1..fwd.A3.cols : fwd.A3.v[r][c] \in {0, One}
    /\ params = prov.returned.value /\ prov.returned.by = "update"
    /\ params # initialize_parameters_3layer([rng EXCEPT !.pos = 0], X.rows, n_h1,
                                             n_h2, y.rows)

AllZero(A) == \A r \in 1..A.rows : \A c \in 1..A.cols : A.v[r][c] = 0

\* C20: for all positive widths the b1, b2, b3 that
\* initialize_parameters_3layer returns are columns of the layer's width
\* whose every entry is exactly zero, whatever the generator draws for the
\* weights.
C20_ZeroBiases ==
    (prov.returned.by = "initialize" /\ n_h1 > 0 /\ n_h2 > 0) =>
        LET P == prov.returned.value
        IN  /\ HasShape(P.b1, n_h1, 1) /\ AllZero(P.b1)
            /\ HasShape(P.b2, n_h2, 1) /\ AllZero(P.b2)
            /\ HasShape(P.b3, y.rows, 1) /\ AllZero(P.b3)

\* Initialization has returned, for widths above 1, weights that are not
\* zero and whose draws were not all equal.
C20_Witness ==
    /\ prov.returned.by = "initialize" /\ n_h1 >= 2 /\ n_h2 >= 2
    /\ LET P == prov.returned.value
       IN  /\ NonZero(P.W1) /\ NonZero(P.W2) /\ NonZero(P.W3)
           /\ P.W1.v[1][1] # P.W1.v[2][1]
           /\ P.b1.rows = n_h1 /\ P.b2.rows = n_h2

\* C21: if in an epoch every entry of A2 is 0, backward_propagation_3layer
\* returns dW3, dW2, db2, dW1 and db1 all zero, and the update of that
\* epoch leaves W1, b1, W2, b2 and W3 as the forward pass used them; only
\* b3 can change.
C21_InactiveLayerFreezes ==
    (pc \in {"update", "sample"} /\ AllZero(fwd.A2)) =>
        /\ AllZero(bwd.dW3)
        /\ AllZero(bwd.dW2) /\ AllZero(bwd.db2)
        /\ AllZero(bwd.dW1) /\ AllZero(bwd.db1)
        /\ pc = "sample" =>
              \A n \in ParamNames \ {"b3"} : params[n] = prov.used[n]

\* An update has run in an epoch whose A2 was all zero although A1, W2,
\* W3 and the output error were not: b3 changed.
C21_Witness ==
    /\ pc = "sample" /\ learning_rate > 0
    /\ n_h1 >= 1 /\ n_h2 >= 1 /\ AllZero(fwd.A2)
    /\ NonZero(fwd.A1) /\ NonZero(params.W2) /\ NonZero(params.W3)
    /\ NonZero(bwd.dZ3)
    /\ params.b3 # prov.used.b3

====
